---- MODULE Spec2Model ----
(***************************************************************************)
(* Model of the region/arena allocator of src/Arena.h.                     *)
(*                                                                         *)
(* Units.  The code keeps capacity and data_count as element counts of the *)
(* uintptr_t array data[], but computes them with ALIGN_SIZE, so every     *)
(* value they ever hold is a multiple of sizeof(uintptr_t) = WORD.  The    *)
(* model stores them divided by WORD ("chunks"): a chunk is WORD array     *)
(* slots, that is WORD * WORD = 64 bytes of buffer.  The division is exact *)
(* and keeps 2^32 (the width of new_size and of ArenaMark.count) inside    *)
(* the integers TLC can hold: 2^32 array slots are U32Chunks chunks.       *)
(* Request sizes (size_bytes) and free-list sizes stay in bytes.           *)
(*                                                                         *)
(* Pointers.  Every pointer the allocator hands out or stores is           *)
(* &reg->data[k] for a Region reg and a count k; it is the record          *)
(* [base, idx] with base the byte address of reg->data and idx = k / WORD, *)
(* and ByteAddr gives its byte address.                                    *)
(***************************************************************************)
EXTENDS Integers, Sequences, FiniteSets, TLC

VARIABLES
    regions,        \* the Region chain from arena->start, in next order
    end,            \* arena->end, as an index into regions
    free_list,      \* arena->free_list: a pointer or NULL
    nodes,          \* the FreeListNode records in memory, by address
    use_free_list,  \* arena->use_free_list
    hung,           \* TRUE when a call entered a loop it never leaves
    live,           \* the caller's live allocations: [ptr, size, seq]
    marks,          \* the ArenaMark values the caller holds: [reg, count, seq, snap]
    seq,            \* the number of calls made so far
    trace           \* the latest calls, in order, with what they returned

vars == <<regions, end, free_list, nodes, use_free_list, hung, live, marks, seq, trace>>

arenaVars == <<regions, end, free_list, nodes, use_free_list>>

----------------------------------------------------------------------------
(* Program constants *)

\* sizeof(uintptr_t)
WORD == 8

\* sizeof(FreeListNode): size_t + void* + pointer
NodeBytes == 24

\* sizeof(Region): the header in front of data[]
RegionHeader == 24

\* 2^32 array slots, in chunks (2^32 / WORD): the range of uint32_t
U32Chunks == 536870912

\* bytes of buffer per chunk
ChunkBytes == WORD * WORD

\* malloc places each block it returns in a slot of its own; blocks never overlap
MallocSlot == 16777216

----------------------------------------------------------------------------
(* Bounds of the model *)

MaxRegions == 3
MaxCalls == 6
MaxMarks == 2

----------------------------------------------------------------------------
(* Pointers *)

NULL == [base |-> 0, idx |-> 0]

ByteAddr(p) == p.base + ChunkBytes * p.idx

\* curr < node on two pointers
PtrLess(p, q) == ByteAddr(p) < ByteAddr(q)

\* the addresses malloc can return for a Region's data[]; when none is left
\* malloc fails
Bases == {k * MallocSlot + RegionHeader : k \in 1..MaxRegions}

\* where malloc puts the first Region: later ones can land below or above it
FirstBase == 2 * MallocSlot + RegionHeader

UsedBases(rs) == {rs[i].base : i \in 1..Len(rs)}

\* (uint32_t) x, for x a multiple of WORD held in chunks
U32(x) == x % U32Chunks

\* ALIGN_SIZE(size_bytes), in chunks
AlignSize(size_bytes) == (size_bytes + WORD - 1) \div WORD

----------------------------------------------------------------------------
(* Region *)

CreateRegion(size_bytes, b) ==
    [capacity |-> AlignSize(size_bytes), data_count |-> 0, base |-> b]

\* create_region(new_size * sizeof(uintptr_t)) with new_size held in chunks:
\* the argument is already a multiple of WORD, so capacity = new_size * WORD slots
CreateRegionSlots(new_size, b) ==
    [capacity |-> WORD * new_size, data_count |-> 0, base |-> b]

\* a > b on two size_t values. A size_t of 2^63 and more is written as the
\* negative number it is in two's complement ((size_t)-8 is -8): sums and
\* ALIGN_SIZE then come out modulo 2^64, and only the comparison has to know
UGreater(a, b) == IF (a < 0) = (b < 0) THEN a > b ELSE a < 0

\* region_allocate that hands out the address and forgets to advance data_count
RegionAllocateNoAdvance(reg, size_bytes) ==
    LET size == AlignSize(size_bytes) IN
    IF UGreater(reg.data_count + size, reg.capacity)
    THEN [reg |-> reg, res |-> NULL]
    ELSE [reg |-> reg, res |-> [base |-> reg.base, idx |-> reg.data_count]]

\* region_allocate: [reg, res]
RegionAllocate(reg, size_bytes) ==
    LET size == AlignSize(size_bytes) IN
    IF UGreater(reg.data_count + size, reg.capacity)
    THEN [reg |-> reg, res |-> NULL]
    ELSE [reg |-> [reg EXCEPT !.data_count = @ + size],
          res |-> [base |-> reg.base, idx |-> reg.data_count]]

RegionReset(reg) == [reg EXCEPT !.data_count = 0]

----------------------------------------------------------------------------
(* Arena: an arena value is [regions, end, free_list, nodes, use_free_list] *)

\* no FreeListNode in memory
NoNodes == [p \in {} |-> NULL]

CreateArena(size_bytes, b) ==
    [regions |-> <<CreateRegion(size_bytes, b)>>, end |-> 1,
     free_list |-> NULL, nodes |-> NoNodes, use_free_list |-> FALSE]

CreateFreelistArena(size_bytes, b) ==
    [CreateArena(size_bytes, b) EXCEPT !.use_free_list = TRUE]

\* uint32_t new_size = curr->capacity; if (size > curr->capacity) new_size = size;
NewSize(cap, size) == IF size > cap THEN U32(size) ELSE U32(cap)

\* a growth step that never looks at the Regions behind end: it links a new
\* Region at the tail whenever end is too full
GrowWalkNoReuse(rs, curr, size, bs) ==
    IF bs = <<>>
    THEN [regions |-> rs, curr |-> curr, ok |-> FALSE]
    ELSE [regions |-> Append(rs, CreateRegionSlots(NewSize(rs[Len(rs)].capacity, size), Head(bs))),
          curr |-> Len(rs) + 1, ok |-> TRUE]

\* The while loop of arena_allocate from curr on.  bs: the addresses of the
\* create_region calls that will succeed, in order; when bs is used up the
\* next create_region returns NULL.  Result: [regions, curr, ok].
RECURSIVE GrowWalk(_, _, _, _)
GrowWalk(rs, curr, size, bs) ==
    IF rs[curr].capacity - rs[curr].data_count < size
    THEN IF curr = Len(rs)
         THEN IF bs = <<>>
              THEN [regions |-> rs, curr |-> curr, ok |-> FALSE]
              ELSE GrowWalk(Append(rs, CreateRegionSlots(NewSize(rs[curr].capacity, size), Head(bs))),
                            curr + 1, size, Tail(bs))
         ELSE GrowWalk(rs, curr + 1, size, bs)
    ELSE [regions |-> rs, curr |-> curr, ok |-> TRUE]

\* the free-list test of arena_allocate: only the head is inspected
FreeListFits(a, size_bytes) ==
    /\ a.use_free_list
    /\ a.free_list # NULL
    /\ a.nodes[a.free_list].size_bytes >= size_bytes

\* the nodes reachable from head by next links
RECURSIVE Reach(_, _, _)
Reach(ns, p, seen) ==
    IF p = NULL \/ p \in seen THEN seen
    ELSE Reach(ns, ns[p].next, seen \cup {p})

\* memory outside the list is never read again before it is rewritten
Live(ns, head) == [p \in Reach(ns, head, {}) |-> ns[p]]

\* the free-list branch that returns the head and leaves it in the list
TakeHeadKeep(a) ==
    [arena |-> a, res |-> a.nodes[a.free_list].ptr]

\* the free-list branch of arena_allocate: ptr = free_list->ptr;
\* free_list = free_list->next; return ptr
TakeHead(a) ==
    LET head == a.free_list
        nxt == a.nodes[head].next
    IN [arena |-> [a EXCEPT !.free_list = nxt, !.nodes = Live(a.nodes, nxt)],
        res |-> a.nodes[head].ptr]

\* arena_allocate whose fast path wants more room left than the request
ArenaAllocateStrictRoom(a, size_bytes, bs) ==
    LET size == AlignSize(size_bytes)
        e == a.regions[a.end]
    IN
    IF e.capacity - e.data_count > size
    THEN [arena |-> [a EXCEPT !.regions[a.end].data_count = @ + size],
          res |-> [base |-> e.base, idx |-> e.data_count]]
    ELSE IF FreeListFits(a, size_bytes)
    THEN TakeHead(a)
    ELSE LET w == GrowWalk(a.regions, a.end, size, bs) IN
         IF ~w.ok
         THEN [arena |-> [a EXCEPT !.regions = w.regions], res |-> NULL]
         ELSE LET r == RegionAllocate(w.regions[w.curr], size_bytes) IN
              [arena |-> [a EXCEPT !.regions = [w.regions EXCEPT ![w.curr] = r.reg],
                                   !.end = w.curr],
               res |-> r.res]

\* arena_allocate whose fast path compares the request with the capacity of
\* end and forgets what is already used
ArenaAllocateIgnoreUsed(a, size_bytes, bs) ==
    LET size == AlignSize(size_bytes)
        e == a.regions[a.end]
    IN
    IF e.capacity >= size
    THEN [arena |-> [a EXCEPT !.regions[a.end].data_count = @ + size],
          res |-> [base |-> e.base, idx |-> e.data_count]]
    ELSE IF FreeListFits(a, size_bytes)
    THEN TakeHead(a)
    ELSE LET w == GrowWalk(a.regions, a.end, size, bs) IN
         IF ~w.ok
         THEN [arena |-> [a EXCEPT !.regions = w.regions], res |-> NULL]
         ELSE LET r == RegionAllocate(w.regions[w.curr], size_bytes) IN
              [arena |-> [a EXCEPT !.regions = [w.regions EXCEPT ![w.curr] = r.reg],
                                   !.end = w.curr],
               res |-> r.res]

\* arena_allocate that looks at the free list before the end Region
ArenaAllocateListFirst(a, size_bytes, bs) ==
    LET size == AlignSize(size_bytes)
        e == a.regions[a.end]
    IN
    IF FreeListFits(a, size_bytes)
    THEN TakeHead(a)
    ELSE IF e.capacity - e.data_count >= size
    THEN [arena |-> [a EXCEPT !.regions[a.end].data_count = @ + size],
          res |-> [base |-> e.base, idx |-> e.data_count]]
    ELSE LET w == GrowWalk(a.regions, a.end, size, bs) IN
         IF ~w.ok
         THEN [arena |-> [a EXCEPT !.regions = w.regions], res |-> NULL]
         ELSE LET r == RegionAllocate(w.regions[w.curr], size_bytes) IN
              [arena |-> [a EXCEPT !.regions = [w.regions EXCEPT ![w.curr] = r.reg],
                                   !.end = w.curr],
               res |-> r.res]

\* arena_allocate: [arena, res]
ArenaAllocate(a, size_bytes, bs) ==
    LET size == AlignSize(size_bytes)
        e == a.regions[a.end]
    IN
    IF e.capacity - e.data_count >= size
    THEN [arena |-> [a EXCEPT !.regions[a.end].data_count = @ + size],
          res |-> [base |-> e.base, idx |-> e.data_count]]
    ELSE IF FreeListFits(a, size_bytes)
    THEN TakeHead(a)
    ELSE LET w == GrowWalk(a.regions, a.end, size, bs) IN
         IF ~w.ok
         THEN [arena |-> [a EXCEPT !.regions = w.regions], res |-> NULL]
         ELSE LET r == RegionAllocate(w.regions[w.curr], size_bytes) IN
              [arena |-> [a EXCEPT !.regions = [w.regions EXCEPT ![w.curr] = r.reg],
                                   !.end = w.curr],
               res |-> r.res]

\* arena_scratch: mark.count is a uint32_t
ArenaScratch(a) ==
    [reg |-> a.end, count |-> U32(a.regions[a.end].data_count)]

NullMark == [reg |-> 0, count |-> 0]

\* arena_reset that leaves end where it is
ArenaResetKeepEnd(a) ==
    [a EXCEPT !.regions = [i \in 1..Len(a.regions) |-> RegionReset(a.regions[i])],
              !.free_list = NULL,
              !.nodes = NoNodes]

\* arena_reset that leaves the free list in place
ArenaResetKeepList(a) ==
    [a EXCEPT !.regions = [i \in 1..Len(a.regions) |-> RegionReset(a.regions[i])],
              !.end = 1]

\* arena_reset
ArenaReset(a) ==
    [a EXCEPT !.regions = [i \in 1..Len(a.regions) |-> RegionReset(a.regions[i])],
              !.end = 1,
              !.free_list = NULL,
              !.nodes = NoNodes]

\* arena_pop_scratch whose loop writes m.count into the Regions behind m.reg
\* instead of 0
ArenaPopScratchCountLater(a, m) ==
    IF m.reg = 0
    THEN ArenaReset(a)
    ELSE [a EXCEPT !.regions = [i \in 1..Len(a.regions) |->
                                   IF i >= m.reg THEN [a.regions[i] EXCEPT !.data_count = m.count]
                                   ELSE a.regions[i]],
                   !.end = m.reg]

\* arena_pop_scratch that moves end back and leaves the Regions behind m.reg
\* as they are
ArenaPopScratchKeepLater(a, m) ==
    IF m.reg = 0
    THEN ArenaReset(a)
    ELSE [a EXCEPT !.regions[m.reg].data_count = m.count,
                   !.end = m.reg]

\* arena_pop_scratch that unlinks the Regions behind m.reg instead of
\* emptying them
ArenaPopScratchDropLater(a, m) ==
    IF m.reg = 0
    THEN ArenaReset(a)
    ELSE [a EXCEPT !.regions = [i \in 1..m.reg |->
                                   IF i = m.reg THEN [a.regions[i] EXCEPT !.data_count = m.count]
                                   ELSE a.regions[i]],
                   !.end = m.reg]

\* arena_pop_scratch that drops the free list as arena_reset does
ArenaPopScratchClearList(a, m) ==
    IF m.reg = 0
    THEN ArenaReset(a)
    ELSE [a EXCEPT !.regions = [i \in 1..Len(a.regions) |->
                                   IF i = m.reg THEN [a.regions[i] EXCEPT !.data_count = m.count]
                                   ELSE IF i > m.reg THEN [a.regions[i] EXCEPT !.data_count = 0]
                                   ELSE a.regions[i]],
                   !.end = m.reg,
                   !.free_list = NULL,
                   !.nodes = NoNodes]

\* arena_pop_scratch
ArenaPopScratch(a, m) ==
    IF m.reg = 0
    THEN ArenaReset(a)
    ELSE [a EXCEPT !.regions = [i \in 1..Len(a.regions) |->
                                   IF i = m.reg THEN [a.regions[i] EXCEPT !.data_count = m.count]
                                   ELSE IF i > m.reg THEN [a.regions[i] EXCEPT !.data_count = 0]
                                   ELSE a.regions[i]],
                   !.end = m.reg]

----------------------------------------------------------------------------
(* Free list *)

\* while (curr && curr < node) { prev = curr; curr = curr->next; }
RECURSIVE SortWalk(_, _, _, _, _)
SortWalk(ns, prev, curr, node, seen) ==
    IF curr # NULL /\ PtrLess(curr, node) /\ curr \notin seen
    THEN SortWalk(ns, curr, ns[curr].next, node, seen \cup {curr})
    ELSE [prev |-> prev, curr |-> curr]

\* the merge loop from curr on: [nodes, hung].  seen: the nodes the loop has
\* been at since it last merged; back at one of them it is in a state it was
\* in before (same list, same curr), which it then repeats for ever
RECURSIVE MergeWalk(_, _, _)
MergeWalk(ns, curr, seen) ==
    IF curr = NULL THEN [nodes |-> ns, hung |-> FALSE]
    ELSE IF ns[curr].next = NULL THEN [nodes |-> ns, hung |-> FALSE]
    ELSE IF curr \in seen THEN [nodes |-> ns, hung |-> TRUE]
    ELSE LET nx == ns[curr].next
             adjacent == ByteAddr(ns[curr].ptr) + ns[curr].size_bytes = ByteAddr(ns[nx].ptr)
             merged == IF adjacent
                       THEN [ns EXCEPT ![curr] = [@ EXCEPT !.size_bytes = @ + ns[nx].size_bytes,
                                                           !.next = ns[nx].next]]
                       ELSE ns
         IN MergeWalk(merged, merged[curr].next, IF adjacent THEN {} ELSE seen \cup {curr})

\* a size test that lets every block through
TooSmallNever(size_bytes) == FALSE

\* size_bytes < sizeof(FreeListNode): the node is stored in the block itself
TooSmall(size_bytes) == size_bytes < NodeBytes

\* a function with one more point
Store(ns, p, v) == [q \in (DOMAIN ns) \cup {p} |-> IF q = p THEN v ELSE ns[q]]

\* arena_add_free_list that hands a block at the top of the end Region back
\* to the bump pointer instead of listing it
ArenaAddFreeListUnbump(a, ptr, size_bytes) ==
    IF ~a.use_free_list THEN [arena |-> a, hung |-> FALSE]
    ELSE IF TooSmall(size_bytes) THEN [arena |-> a, hung |-> FALSE]
    ELSE IF /\ ptr.base = a.regions[a.end].base
            /\ ptr.idx + AlignSize(size_bytes) = a.regions[a.end].data_count
    THEN [arena |-> [a EXCEPT !.regions[a.end].data_count = ptr.idx], hung |-> FALSE]
    ELSE LET written == Store(a.nodes, ptr, [size_bytes |-> size_bytes, ptr |-> ptr, next |-> NULL])
         IN
         IF a.free_list = NULL
         THEN [arena |-> [a EXCEPT !.free_list = ptr, !.nodes = Live(written, ptr)],
               hung |-> FALSE]
         ELSE LET pos == SortWalk(written, a.free_list, a.free_list, ptr, {})
                  linked1 == [written EXCEPT ![pos.prev].next = ptr]
                  linked2 == [linked1 EXCEPT ![ptr].next = pos.curr]
                  m == MergeWalk(linked2, a.free_list, {})
              IN [arena |-> [a EXCEPT !.nodes = IF m.hung THEN m.nodes ELSE Live(m.nodes, a.free_list)],
                  hung |-> m.hung]

\* arena_add_free_list that does not look at use_free_list
ArenaAddFreeListAlways(a, ptr, size_bytes) ==
    IF TooSmall(size_bytes) THEN [arena |-> a, hung |-> FALSE]
    ELSE LET written == Store(a.nodes, ptr, [size_bytes |-> size_bytes, ptr |-> ptr, next |-> NULL])
         IN
         IF a.free_list = NULL
         THEN [arena |-> [a EXCEPT !.free_list = ptr, !.nodes = Live(written, ptr)],
               hung |-> FALSE]
         ELSE LET pos == SortWalk(written, a.free_list, a.free_list, ptr, {})
                  linked1 == [written EXCEPT ![pos.prev].next = ptr]
                  linked2 == [linked1 EXCEPT ![ptr].next = pos.curr]
                  m == MergeWalk(linked2, a.free_list, {})
              IN [arena |-> [a EXCEPT !.nodes = IF m.hung THEN m.nodes ELSE Live(m.nodes, a.free_list)],
                  hung |-> m.hung]

\* arena_add_free_list: [arena, hung]
ArenaAddFreeList(a, ptr, size_bytes) ==
    IF ~a.use_free_list THEN [arena |-> a, hung |-> FALSE]
    ELSE IF TooSmall(size_bytes) THEN [arena |-> a, hung |-> FALSE]
    ELSE LET written == Store(a.nodes, ptr, [size_bytes |-> size_bytes, ptr |-> ptr, next |-> NULL])
         IN
         IF a.free_list = NULL
         THEN [arena |-> [a EXCEPT !.free_list = ptr, !.nodes = Live(written, ptr)],
               hung |-> FALSE]
         ELSE LET pos == SortWalk(written, a.free_list, a.free_list, ptr, {})
                  linked1 == [written EXCEPT ![pos.prev].next = ptr]
                  linked2 == [linked1 EXCEPT ![ptr].next = pos.curr]
                  m == MergeWalk(linked2, a.free_list, {})
              IN [arena |-> [a EXCEPT !.nodes = IF m.hung THEN m.nodes ELSE Live(m.nodes, a.free_list)],
                  hung |-> m.hung]

----------------------------------------------------------------------------------------------------------------------------------------
(* The caller: one arena, driven through the API *)

\* create_arena / create_freelist_arena arguments
InitBytes == {24}

\* arena_allocate arguments
Sizes == {8, 24, 200}

Arena == [regions |-> regions, end |-> end, free_list |-> free_list,
          nodes |-> nodes, use_free_list |-> use_free_list]

SetArena(a) ==
    /\ regions' = a.regions
    /\ end' = a.end
    /\ free_list' = a.free_list
    /\ nodes' = a.nodes
    /\ use_free_list' = a.use_free_list

\* which create_region calls of one arena_allocate succeed, and where
BaseSeqs(rs) ==
    LET free == Bases \ UsedBases(rs) IN
    {<<>>} \cup {<<b>> : b \in free}
           \cup {<<p[1], p[2]>> : p \in {q \in free \X free : q[1] # q[2]}}

RECURSIVE SumUsed(_, _)
SumUsed(rs, i) == IF i = 0 THEN 0 ELSE rs[i].data_count + SumUsed(rs, i - 1)

\* what print_arena reports as used, in chunks
TotalUsed(a) == SumUsed(a.regions, Len(a.regions))

\* one call of the trace: its name and arguments, what it returned, and the
\* used total and number of Regions it left
Call(name, size, ptr, m, res, a) ==
    [name |-> name, size |-> size, ptr |-> ptr, mark |-> m, res |-> res,
     used |-> TotalUsed(a), nreg |-> Len(a.regions)]

\* the trace with call c added, kept to its latest w calls
Record(c, w) ==
    LET t == Append(trace, c) IN
    IF Len(t) > w THEN SubSeq(t, Len(t) - w + 1, Len(t)) ELSE t

InitWith(bytes, recycling) ==
    /\ \E size_bytes \in bytes, fl \in recycling :
          LET a == IF fl THEN CreateFreelistArena(size_bytes, FirstBase)
                        ELSE CreateArena(size_bytes, FirstBase) IN
          /\ regions = a.regions
          /\ end = a.end
          /\ free_list = a.free_list
          /\ nodes = a.nodes
          /\ use_free_list = a.use_free_list
    /\ hung = FALSE
    /\ live = {}
    /\ marks = {}
    /\ seq = 0
    /\ trace = <<>>

Init == InitWith(InitBytes, BOOLEAN)

Allocate(size_bytes, bs, w) ==
    /\ ~hung
    /\ seq < MaxCalls
    /\ seq' = seq + 1
    /\ LET r == ArenaAllocate(Arena, size_bytes, bs) IN
       /\ SetArena(r.arena)
       /\ live' = IF r.res = NULL THEN live
                  ELSE live \cup {[ptr |-> r.res, size |-> size_bytes, seq |-> seq + 1]}
       /\ trace' = Record(Call("allocate", size_bytes, NULL, NullMark, r.res, r.arena), w)
    /\ UNCHANGED <<hung, marks>>

\* the caller gives back an allocation it holds, with the size it asked for
Deallocate(l, w) ==
    /\ ~hung
    /\ seq < MaxCalls
    /\ seq' = seq + 1
    /\ LET r == ArenaAddFreeList(Arena, l.ptr, l.size) IN
       /\ SetArena(r.arena)
       /\ hung' = r.hung
       /\ trace' = Record(Call("deallocate", l.size, l.ptr, NullMark, NULL, r.arena), w)
    /\ live' = live \ {l}
    /\ UNCHANGED marks

\* every Region's data_count, as the caller saw it when it took a mark
Snapshot(rs) == [i \in 1..Len(rs) |-> rs[i].data_count]

Mark(w) ==
    /\ ~hung
    /\ seq < MaxCalls
    /\ seq' = seq + 1
    /\ Cardinality(marks) < MaxMarks
    /\ LET m == ArenaScratch(Arena) IN
       /\ marks' = marks \cup {[reg |-> m.reg, count |-> m.count, seq |-> seq + 1,
                                snap |-> Snapshot(regions)]}
       /\ trace' = Record(Call("mark", 0, NULL, m, NULL, Arena), w)
    /\ UNCHANGED <<arenaVars, hung, live>>

\* pop of a mark the caller holds; allocations made after the mark are gone
Pop(m, w) ==
    /\ ~hung
    /\ seq < MaxCalls
    /\ seq' = seq + 1
    /\ LET a == ArenaPopScratch(Arena, [reg |-> m.reg, count |-> m.count]) IN
       /\ SetArena(a)
       /\ trace' = Record(Call("pop", 0, NULL, [reg |-> m.reg, count |-> m.count], NULL, a), w)
    /\ live' = {l \in live : l.seq <= m.seq}
    /\ UNCHANGED <<hung, marks>>

Reset(w) ==
    /\ ~hung
    /\ seq < MaxCalls
    /\ seq' = seq + 1
    /\ LET a == ArenaReset(Arena) IN
       /\ SetArena(a)
       /\ trace' = Record(Call("reset", 0, NULL, NullMark, NULL, a), w)
    /\ live' = {}
    /\ UNCHANGED <<hung, marks>>

\* a zero-initialised ArenaMark
NoMark == [reg |-> 0, count |-> 0, seq |-> 0, snap |-> <<>>]

\* any caller; the trace holds the last call
Next ==
    \/ \E size_bytes \in Sizes, bs \in BaseSeqs(regions) : Allocate(size_bytes, bs, 1)
    \/ \E l \in live : Deallocate(l, 1)
    \/ Mark(1)
    \/ \E m \in marks \cup {NoMark} : Pop(m, 1)
    \/ Reset(1)

Spec == Init /\ [][Next]_vars

\* any caller; the trace holds every call
NextTrace ==
    \/ \E size_bytes \in Sizes, bs \in BaseSeqs(regions) : Allocate(size_bytes, bs, MaxCalls)
    \/ \E l \in live : Deallocate(l, MaxCalls)
    \/ Mark(MaxCalls)
    \/ \E m \in marks \cup {NoMark} : Pop(m, MaxCalls)
    \/ Reset(MaxCalls)

SpecTrace == Init /\ [][NextTrace]_vars

\* a caller that only allocates and resets; the trace holds every call
RunBytes == {24, 64}

RunSizes == {1, 100, 200}

InitRun == InitWith(RunBytes, BOOLEAN)

NextRun ==
    \/ \E size_bytes \in RunSizes, bs \in BaseSeqs(regions) : Allocate(size_bytes, bs, MaxCalls)
    \/ Reset(MaxCalls)

SpecRun == InitRun /\ [][NextRun]_vars

\* a caller of a recycling arena working with blocks of 100 to 200 bytes;
\* the trace holds the last two calls
CoalesceBytes == {312, 1024}

CoalesceSizes == {100, 150, 200}

InitCoalesce == InitWith(CoalesceBytes, {TRUE})

NextCoalesce ==
    \/ \E size_bytes \in CoalesceSizes, bs \in BaseSeqs(regions) : Allocate(size_bytes, bs, 2)
    \/ \E l \in live : Deallocate(l, 2)
    \/ Mark(2)
    \/ \E m \in marks \cup {NoMark} : Pop(m, 2)
    \/ Reset(2)

SpecCoalesce == InitCoalesce /\ [][NextCoalesce]_vars

\* the same caller without mark and pop; the trace holds every call
NextCoalesceTrace ==
    \/ \E size_bytes \in CoalesceSizes, bs \in BaseSeqs(regions) : Allocate(size_bytes, bs, MaxCalls)
    \/ \E l \in live : Deallocate(l, MaxCalls)
    \/ Reset(MaxCalls)

SpecCoalesceTrace == InitCoalesce /\ [][NextCoalesceTrace]_vars

\* a caller of an arena created with 2^32 bytes (capacity 2^32 slots) that
\* asks for blocks of 2^29, 2^30 and 3 * 2^29 bytes; the trace holds the
\* last call.
\* Byte addresses in such Regions are beyond the integers TLC holds and are
\* never computed here: base only tells the buffers apart.
WideSizes == {536870912, 1073741824, 1610612736}

InitWide ==
    /\ regions = <<CreateRegionSlots(U32Chunks \div WORD, FirstBase)>>
    /\ end = 1
    /\ free_list = NULL
    /\ nodes = NoNodes
    /\ use_free_list = FALSE
    /\ hung = FALSE
    /\ live = {}
    /\ marks = {}
    /\ seq = 0
    /\ trace = <<>>

NextWide ==
    \/ \E size_bytes \in WideSizes, bs \in BaseSeqs(regions) : Allocate(size_bytes, bs, 1)
    \/ \E l \in live : Deallocate(l, 1)
    \/ Mark(1)
    \/ \E m \in marks \cup {NoMark} : Pop(m, 1)
    \/ Reset(1)

SpecWide == InitWide /\ [][NextWide]_vars

\* a caller whose create call may find malloc failing.  create_arena does
\* not test what malloc and create_region return:
\*  - create_region returns NULL: the handle is returned with start = end =
\*    NULL (regions empty, end = 0);
\*  - malloc(sizeof(Arena)) returns NULL: arena->start = ... writes through
\*    NULL and create never returns (hung).
\* A Region pointer that is indeterminate (read from an uninitialised
\* ArenaMark) is the index WildReg.
WildReg == 0 - 1

WildPtr == [base |-> 0 - 1, idx |-> 0]

CreateArenaNoRegion(fl) ==
    [regions |-> <<>>, end |-> 0, free_list |-> NULL, nodes |-> NoNodes, use_free_list |-> fl]

InitCreate ==
    \/ Init
    \/ /\ \E fl \in BOOLEAN, fault \in BOOLEAN :
             LET a == CreateArenaNoRegion(fl /\ ~fault) IN
             /\ regions = a.regions
             /\ end = a.end
             /\ free_list = a.free_list
             /\ nodes = a.nodes
             /\ use_free_list = a.use_free_list
             /\ hung = fault
       /\ live = {}
       /\ marks = {}
       /\ seq = 0
       /\ trace = <<>>

\* arena_scratch with end == NULL returns its local mark unassigned: both
\* fields hold whatever the stack held
UninitMarks == {[reg |-> r, count |-> c] : r \in {0, WildReg}, c \in {0, 1}}

\* arena_allocate when end is not a Region: arena->end->capacity is read
\* through NULL or a wild pointer; the process faults, or the read and the
\* write of data_count land in memory outside the arena and an address
\* outside every Region comes back
AllocateNoRegion(size_bytes, w) ==
    /\ ~hung
    /\ seq < MaxCalls
    /\ end <= 0
    /\ seq' = seq + 1
    /\ \E fault \in BOOLEAN :
          /\ hung' = fault
          /\ trace' = Record(Call("allocate", size_bytes, NULL, NullMark,
                                  IF fault THEN NULL ELSE WildPtr, Arena), w)
    /\ UNCHANGED <<arenaVars, live, marks>>

\* arena_scratch when end is not a Region
MarkNoRegion(w) ==
    /\ ~hung
    /\ seq < MaxCalls
    /\ end <= 0
    /\ Cardinality(marks) < MaxMarks
    /\ seq' = seq + 1
    /\ \E m \in UninitMarks, fault \in BOOLEAN :
          /\ end = 0 => ~fault
          /\ end = WildReg => m.reg = WildReg
          /\ hung' = fault
          /\ marks' = IF fault THEN marks
                      ELSE marks \cup {[reg |-> m.reg, count |-> m.count, seq |-> seq + 1,
                                        snap |-> <<>>]}
          /\ trace' = Record(Call("mark", 0, NULL, m, NULL, Arena), w)
    /\ UNCHANGED <<arenaVars, live>>

\* arena_reset when start is NULL: the loop does nothing, end = start
ResetNoRegion(w) ==
    /\ ~hung
    /\ seq < MaxCalls
    /\ end <= 0
    /\ seq' = seq + 1
    /\ end' = 0
    /\ free_list' = NULL
    /\ nodes' = NoNodes
    /\ trace' = Record(Call("reset", 0, NULL, NullMark, NULL, Arena), w)
    /\ UNCHANGED <<regions, use_free_list, hung, live, marks>>

\* arena_pop_scratch when end is not a Region: a NULL m.reg resets; a wild
\* m.reg is written through, which faults or lands outside the arena, and
\* then becomes end
PopNoRegion(m, w) ==
    /\ ~hung
    /\ seq < MaxCalls
    /\ end <= 0
    /\ seq' = seq + 1
    /\ \E fault \in BOOLEAN :
          /\ m.reg = 0 => ~fault
          /\ hung' = fault
          /\ end' = IF fault THEN end ELSE m.reg
          /\ free_list' = IF m.reg = 0 THEN NULL ELSE free_list
          /\ nodes' = IF m.reg = 0 THEN NoNodes ELSE nodes
    /\ trace' = Record(Call("pop", 0, NULL, [reg |-> m.reg, count |-> m.count], NULL, Arena), w)
    /\ UNCHANGED <<regions, use_free_list, live, marks>>

NextCreate ==
    \/ end > 0 /\ Next
    \/ \E size_bytes \in Sizes : AllocateNoRegion(size_bytes, 1)
    \/ MarkNoRegion(1)
    \/ \E m \in marks \cup {NoMark} : PopNoRegion(m, 1)
    \/ ResetNoRegion(1)

SpecCreate == InitCreate /\ [][NextCreate]_vars

\* a caller of a recycling arena that also gives back part of a block it
\* holds: the range of one chunk (64 bytes) at chunk k of the block, keeping
\* what lies in front of it and behind it
PieceBytes == {312}

PieceSizes == {200}

DeallocatePiece(l, k, w) ==
    /\ ~hung
    /\ seq < MaxCalls
    /\ ChunkBytes * (k + 1) <= l.size
    /\ seq' = seq + 1
    /\ LET ptr == [base |-> l.ptr.base, idx |-> l.ptr.idx + k]
           rest == l.size - ChunkBytes * (k + 1)
           r == ArenaAddFreeList(Arena, ptr, ChunkBytes)
       IN
       /\ SetArena(r.arena)
       /\ hung' = r.hung
       /\ trace' = Record(Call("deallocate", ChunkBytes, ptr, NullMark, NULL, r.arena), w)
       /\ live' = (live \ {l})
                    \cup (IF k > 0
                          THEN {[ptr |-> l.ptr, size |-> ChunkBytes * k, seq |-> l.seq]}
                          ELSE {})
                    \cup (IF rest > 0
                          THEN {[ptr |-> [base |-> l.ptr.base, idx |-> l.ptr.idx + k + 1],
                                 size |-> rest, seq |-> l.seq]}
                          ELSE {})
    /\ UNCHANGED marks

InitPieces == InitWith(PieceBytes, {TRUE})

NextPieces ==
    \/ \E size_bytes \in PieceSizes, bs \in BaseSeqs(regions) : Allocate(size_bytes, bs, 1)
    \/ \E l \in live : Deallocate(l, 1)
    \/ \E l \in live, k \in 0..2 : DeallocatePiece(l, k, 1)
    \/ Reset(1)

SpecPieces == InitPieces /\ [][NextPieces]_vars

\* a caller of the 2^32-slot arena that keeps stack discipline: popping a
\* mark gives up that mark and every mark taken after it
PopStack(m, w) ==
    /\ ~hung
    /\ seq < MaxCalls
    /\ seq' = seq + 1
    /\ LET a == ArenaPopScratch(Arena, [reg |-> m.reg, count |-> m.count]) IN
       /\ SetArena(a)
       /\ trace' = Record(Call("pop", 0, NULL, [reg |-> m.reg, count |-> m.count], NULL, a), w)
    /\ live' = {l \in live : l.seq <= m.seq}
    /\ marks' = {k \in marks : k.seq < m.seq}
    /\ UNCHANGED hung

NextWideStack ==
    \/ \E size_bytes \in WideSizes, bs \in BaseSeqs(regions) : Allocate(size_bytes, bs, 1)
    \/ Mark(1)
    \/ \E m \in marks : PopStack(m, 1)

SpecWideStack == InitWide /\ [][NextWideStack]_vars

\* a caller that holds one Region and calls region_allocate and region_reset
\* on it directly; the trace holds every call. -8 is (size_t)-8, a request of
\* 2^64 - 8 bytes
RegionBytes == {24, 64}

RegionSizes == {0, 1, 24, 0 - 8}

InitRegion ==
    /\ \E size_bytes \in RegionBytes : regions = <<CreateRegion(size_bytes, FirstBase)>>
    /\ end = 1
    /\ free_list = NULL
    /\ nodes = NoNodes
    /\ use_free_list = FALSE
    /\ hung = FALSE
    /\ live = {}
    /\ marks = {}
    /\ seq = 0
    /\ trace = <<>>

AllocateRegion(size_bytes, w) ==
    /\ seq < MaxCalls
    /\ seq' = seq + 1
    /\ LET r == RegionAllocate(regions[1], size_bytes)
           a == [Arena EXCEPT !.regions = <<r.reg>>] IN
       /\ regions' = a.regions
       /\ live' = IF r.res = NULL THEN live
                  ELSE live \cup {[ptr |-> r.res, size |-> size_bytes, seq |-> seq + 1]}
       /\ trace' = Record(Call("region_allocate", size_bytes, NULL, NullMark, r.res, a), w)
    /\ UNCHANGED <<end, free_list, nodes, use_free_list, hung, marks>>

ResetRegion(w) ==
    /\ seq < MaxCalls
    /\ seq' = seq + 1
    /\ LET a == [Arena EXCEPT !.regions = <<RegionReset(regions[1])>>] IN
       /\ regions' = a.regions
       /\ trace' = Record(Call("region_reset", 0, NULL, NullMark, NULL, a), w)
    /\ live' = {}
    /\ UNCHANGED <<end, free_list, nodes, use_free_list, hung, marks>>

NextRegion ==
    \/ \E size_bytes \in RegionSizes : AllocateRegion(size_bytes, MaxCalls)
    \/ ResetRegion(MaxCalls)

SpecRegion == InitRegion /\ [][NextRegion]_vars

\* any caller that also asks for zero bytes, on arenas created with room
\* for 0 or 24 bytes; the trace holds the last two calls
ZeroBytes == {0, 24}

ZeroSizes == {0, 24}

InitZero == InitWith(ZeroBytes, BOOLEAN)

NextZero ==
    \/ \E size_bytes \in ZeroSizes, bs \in BaseSeqs(regions) : Allocate(size_bytes, bs, 2)
    \/ \E l \in live : Deallocate(l, 2)
    \/ Mark(2)
    \/ \E m \in marks \cup {NoMark} : Pop(m, 2)
    \/ Reset(2)

SpecZero == InitZero /\ [][NextZero]_vars

----------------------------------------------------------------------------
(* Address ranges *)

\* the bytes [ByteAddr(ptr), ByteAddr(ptr) + size) of two allocations share a byte
Overlap(l1, l2) ==
    /\ ByteAddr(l1.ptr) < ByteAddr(l2.ptr) + l2.size
    /\ ByteAddr(l2.ptr) < ByteAddr(l1.ptr) + l1.size

\* the allocation lies inside the buffer of one Region of the chain
InsideRegion(ptr, size) ==
    \E i \in 1..Len(regions) :
        /\ ptr.base = regions[i].base
        /\ ChunkBytes * ptr.idx + size <= ChunkBytes * regions[i].capacity

----------------------------------------------------------------------------
(* Claims *)

\* C1: allocate never returns a range that overlaps the range of another
\* live allocation (live: returned and since then neither deallocated nor
\* invalidated by a pop of an earlier mark or a reset).
C1_NoOverlapLive ==
    \A l1 \in live, l2 \in live : l1 # l2 => ~Overlap(l1, l2)

Last(t) == t[Len(t)]

\* the step is a call of the given name
Called(name) == seq' = seq + 1 /\ Last(trace').name = name

\* the allocation a call of the trace returned
Got(c) == [ptr |-> c.res, size |-> c.size]

\* the call is an allocate that returned an address
Allocated(c) == c.name = "allocate" /\ c.res # NULL

\* the trace is the whole life of the arena and holds only successful
\* allocate calls of a size above 0
AllocsOnly ==
    /\ Len(trace) = seq
    /\ \A i \in 1..Len(trace) : Allocated(trace[i]) /\ trace[i].size > 0

C3_EveryCallReturns == ~hung

\* C4: when allocate needs a new Region and its buffer cannot be obtained,
\* allocate returns NULL and the arena is as before the call: no new link in
\* the chain, end, every Region's used and the free list unchanged.
C4_FailedAllocateChangesNothing ==
    [][(Called("allocate") /\ Last(trace').res = NULL) => UNCHANGED arenaVars]_vars

\* the trace is k - 1 successful allocate calls, a reset at k, and then
\* allocate calls repeating the sizes of the first ones in order
Replay(k) ==
    /\ Len(trace) = seq
    /\ k > 1
    /\ trace[k].name = "reset"
    /\ \A i \in 1..(k - 1) : Allocated(trace[i])
    /\ \A j \in (k + 1)..Len(trace) :
          /\ j - k < k
          /\ trace[j].name = "allocate"
          /\ trace[j].size = trace[j - k].size

\* C5: after allocate calls on a fresh arena and a reset, repeating the same
\* sizes returns the same address at every position and creates no Region.
C5_ResetReplaySameAddresses ==
    \A k \in 1..Len(trace) :
        Replay(k) =>
            \A j \in (k + 1)..Len(trace) :
                /\ trace[j].res = trace[j - k].res
                /\ trace[j].nreg = trace[k].nreg

\* a whole first run that grew the chain has been repeated after reset
C5_Witness ==
    \E k \in 3..Len(trace) :
        Replay(k) /\ Len(trace) = 2 * k - 1 /\ trace[k].nreg >= 2

\* calls n - 2, n - 1, n of the trace are m = mark(); p = allocate(K); pop(m)
MarkAllocPop(n) ==
    /\ n >= 3
    /\ trace[n - 2].name = "mark"
    /\ Allocated(trace[n - 1])
    /\ trace[n].name = "pop"
    /\ trace[n].mark = trace[n - 2].mark

\* C6: in every reachable state, m = mark(); p = allocate(K); pop(m) leaves
\* the total used count at its value before mark(), and the next allocate(K)
\* returns p again.
C6_MarkPopRoundTrip ==
    \A n \in 1..Len(trace) :
        /\ MarkAllocPop(n) => trace[n].used = trace[n - 2].used
        /\ (/\ MarkAllocPop(n - 1)
            /\ Allocated(trace[n])
            /\ trace[n].size = trace[n - 2].size) => trace[n].res = trace[n - 2].res

\* the last five calls are three allocate(100) returning A, B, C and then
\* deallocate of B and of A, in either order
ThreeThenFreeTwo(n) ==
    /\ n >= 5
    /\ \A i \in (n - 4)..(n - 2) : Allocated(trace[i]) /\ trace[i].size = 100
    /\ trace[n - 1].name = "deallocate"
    /\ trace[n].name = "deallocate"
    /\ {trace[n - 1].ptr, trace[n].ptr} = {trace[n - 4].res, trace[n - 3].res}
    /\ trace[n - 4].res # trace[n - 3].res

\* C7: on a recycling arena, after three consecutive allocate(100) calls
\* returning A, B, C, deallocate(B, 100) and deallocate(A, 100) in either
\* order leave the free list with exactly one entry, at A, of at least 200 bytes.
C7_FreeTwoLeavesOneMergedEntry ==
    (use_free_list /\ Len(trace) = seq /\ ThreeThenFreeTwo(Len(trace))) =>
        /\ ~hung
        /\ free_list = trace[Len(trace) - 4].res
        /\ nodes[free_list].next = NULL
        /\ nodes[free_list].size_bytes >= 200

\* the free list is one entry of at least 200 bytes
OneBigEntry ==
    /\ use_free_list
    /\ free_list # NULL
    /\ nodes[free_list].next = NULL
    /\ nodes[free_list].size_bytes >= 200

\* allocate(150) returned the entry, unlinked it and created no Region
ReusedEntry ==
    /\ Last(trace').res = free_list
    /\ free_list' = NULL
    /\ nodes' = NoNodes
    /\ Len(regions') = Len(regions)

\* the end Region cannot hold the request
EndTooFull(size_bytes) ==
    regions[end].capacity - regions[end].data_count < AlignSize(size_bytes)

\* C8: whenever the free list of a recycling arena is one entry at A of at
\* least 200 bytes, allocate(150) returns A, removes the entry and creates
\* no Region.
C8_Allocate150ReusesEntry ==
    [][(Called("allocate") /\ Last(trace').size = 150 /\ OneBigEntry) => ReusedEntry]_vars

\* what the code does give: the same, when the end Region has less than the
\* rounded request left (the bump fast path comes first).
Allocate150ReusesEntryWhenEndFull ==
    [][(Called("allocate") /\ Last(trace').size = 150 /\ OneBigEntry /\ EndTooFull(150))
         => ReusedEntry]_vars

\* deallocate(A, 200) and then allocate(150) returning A, the list empty again
ReusedAfterFree ==
    /\ Len(trace) = 2
    /\ trace[1].name = "deallocate" /\ trace[1].size = 200
    /\ trace[2].name = "allocate" /\ trace[2].size = 150
    /\ trace[2].res = trace[1].ptr
    /\ free_list = NULL

\* calls d + 1 .. d + k give back blocks of s bytes, calls d + k + 1 .. d + 2k
\* are the allocate(s) calls that follow, and the trace ends there
FreedThenAllocated(d, k, s) ==
    /\ k >= 1
    /\ d + 2 * k = Len(trace)
    /\ \A i \in (d + 1)..(d + k) : trace[i].name = "deallocate" /\ trace[i].size = s
    /\ \A j \in (d + k + 1)..(d + 2 * k) : Allocated(trace[j]) /\ trace[j].size = s

\* C9: on a recycling arena, after blocks of S >= sizeof(FreeListNode) bytes
\* were deallocated, at least one of the allocate(S) calls that follow returns
\* a deallocated address, also when the end Region has capacity left.
C9_FreedBlocksAreReused ==
    (use_free_list /\ Len(trace) = seq) =>
        \A d \in 0..Len(trace), k \in 1..Len(trace), s \in CoalesceSizes :
            (s >= NodeBytes /\ FreedThenAllocated(d, k, s)) =>
                \E i \in (d + 1)..(d + k), j \in (d + k + 1)..(d + 2 * k) :
                    trace[j].res = trace[i].ptr

\* C10: deallocate(ptr, size) with size < sizeof(FreeListNode) on a recycling
\* arena changes nothing: the free list, end and every Region are as before
\* and no node is written at ptr.
C10_SmallFreeChangesNothing ==
    [][(Called("deallocate") /\ Last(trace').size < NodeBytes /\ use_free_list)
         => (UNCHANGED arenaVars /\ ~hung')]_vars

\* a block below the descriptor size was given back to a recycling arena
\* whose free list holds a node
C10_Witness ==
    /\ trace # <<>>
    /\ Last(trace).name = "deallocate"
    /\ Last(trace).size < NodeBytes
    /\ use_free_list
    /\ free_list # NULL

\* C11: deallocate tells the caller what it did: the value returned by a call
\* that inserted the block (recycling on, size at least the descriptor size)
\* differs from the value returned by a call that did nothing.
\* arena_add_free_list is void: the trace records NULL for every call of it.
C11_DeallocateOutcomeIsReturned ==
    use_free_list =>
        \A i \in 1..Len(trace), j \in 1..Len(trace) :
            (/\ trace[i].name = "deallocate" /\ trace[i].size >= NodeBytes
             /\ trace[j].name = "deallocate" /\ trace[j].size < NodeBytes)
                => trace[i].res # trace[j].res

\* C12: on an arena created without recycling the free list is always empty
\* and deallocate(ptr, size) changes nothing, whatever ptr and size are: end,
\* the chain and every Region's used stay as they were.
C12_NoRecyclingDeallocateIsNoOp ==
    [][~use_free_list =>
         /\ free_list' = NULL
         /\ nodes' = NoNodes
         /\ Called("deallocate") => (UNCHANGED arenaVars /\ ~hung')]_vars

\* a block as large as a descriptor was given back to an arena without
\* recycling that has grown
C12_Witness ==
    /\ ~use_free_list
    /\ trace # <<>>
    /\ Last(trace).name = "deallocate"
    /\ Last(trace).size >= NodeBytes
    /\ Len(regions) >= 2

\* no Region of the chain behind end can hold the request
NoLaterRegionFits(size_bytes) ==
    \A i \in (end + 1)..Len(regions) :
        regions[i].capacity - regions[i].data_count < AlignSize(size_bytes)

\* C13: an allocate(size) that returns an address and that the end Region,
\* the free list and the Regions behind end cannot serve creates exactly one
\* Region, of capacity at least size, and the address differs from every
\* live allocation.
C13_GrowthCreatesOneRegion ==
    [][(/\ Called("allocate")
        /\ Last(trace').res # NULL
        /\ EndTooFull(Last(trace').size)
        /\ ~FreeListFits(Arena, Last(trace').size)
        /\ NoLaterRegionFits(Last(trace').size))
         => /\ Len(regions') = Len(regions) + 1
            /\ regions'[Len(regions')].capacity >= AlignSize(Last(trace').size)
            /\ \A l \in live : l.ptr # Last(trace').res]_vars

\* C14: create comes back to its caller also when malloc fails, and a handle
\* it returned, at once or after any calls on it, has a start and an end
\* Region: mark and allocate never find an arena without Regions.
C14_CreateFailsOrHasRegions ==
    /\ seq = 0 => ~hung
    /\ (seq > 0 \/ ~hung) => (regions # <<>> /\ end # 0)

\* C15: pop(m) with a mark that mark() produced on a recycling arena leaves
\* the free list as it was: the same head, the same nodes with the same
\* sizes in the same order, whatever was deallocated since the mark.
C15_PopKeepsFreeList ==
    [][(Called("pop") /\ use_free_list /\ Last(trace').mark.reg # 0)
         => UNCHANGED <<free_list, nodes>>]_vars

\* a block was given back after a mark was taken, and that mark was popped
\* with the block still in the free list
C15_Witness ==
    /\ use_free_list
    /\ Len(trace) = 2
    /\ trace[1].name = "deallocate"
    /\ trace[1].size >= NodeBytes
    /\ trace[2].name = "pop"
    /\ \E m \in marks :
          /\ m.seq < seq - 1
          /\ trace[2].mark = [reg |-> m.reg, count |-> m.count]
    /\ free_list = trace[1].ptr

\* the number of chunks a range of size bytes reaches into
Chunks(size) == (size + ChunkBytes - 1) \div ChunkBytes

\* Overlap without byte addresses: every allocation starts on a chunk, and
\* buffers of different Regions are disjoint
OverlapIdx(l1, l2) ==
    /\ l1.ptr.base = l2.ptr.base
    /\ l1.ptr.idx < l2.ptr.idx + Chunks(l2.size)
    /\ l2.ptr.idx < l1.ptr.idx + Chunks(l1.size)

\* C16: on an arena without recycling, an allocation made before a mark was
\* taken and not invalidated since is never overlapped by an allocation
\* made after that mark, in particular not by one made after pop of the mark.
C16_PopKeepsEarlierAllocations ==
    ~use_free_list =>
        \A l1 \in live, l2 \in live :
            (\E m \in marks : l1.seq < m.seq /\ m.seq < l2.seq) => ~OverlapIdx(l1, l2)

\* from p on the free list is a finite chain whose addresses strictly ascend
RECURSIVE AscendingFrom(_, _, _)
AscendingFrom(ns, p, seen) ==
    IF p = NULL THEN TRUE
    ELSE IF p \in seen THEN FALSE
    ELSE LET nx == ns[p].next IN
         /\ nx = NULL \/ PtrLess(p, nx)
         /\ AscendingFrom(ns, nx, seen \cup {p})

\* C17: after every deallocate call, in whatever order distinct allocated
\* blocks are given back, the free list is a finite chain with strictly
\* ascending node addresses: no node is followed by a lower or equal one and
\* none is reachable from itself.
C17_FreeListAscending ==
    (trace # <<>> /\ Last(trace).name = "deallocate") => AscendingFrom(nodes, free_list, {})

\* the same for the calls that return
FreeListAscendingWhenReturned ==
    (trace # <<>> /\ Last(trace).name = "deallocate" /\ ~hung) => AscendingFrom(nodes, free_list, {})

\* from p on no node of the free list ends where the next one starts
RECURSIVE NoAdjacentFrom(_, _, _)
NoAdjacentFrom(ns, p, seen) ==
    IF p = NULL \/ p \in seen THEN TRUE
    ELSE LET nx == ns[p].next IN
         /\ nx = NULL \/ ByteAddr(p) + ns[p].size_bytes # ByteAddr(nx)
         /\ NoAdjacentFrom(ns, nx, seen \cup {p})

\* C18: after every deallocate call that returns, the free list has no two
\* consecutive nodes n1, n2 with n1.address + n1.size_bytes = n2.address; so
\* giving back the middle one of three contiguous ranges whose outer two are
\* in the list leaves one node over all three.
C18_NoAdjacentNodesLeft ==
    (trace # <<>> /\ Last(trace).name = "deallocate" /\ ~hung)
        => NoAdjacentFrom(nodes, free_list, {})

\* the nodes of the free list with room for size_bytes
FitNodes(size_bytes) ==
    {p \in Reach(nodes, free_list, {}) : nodes[p].size_bytes >= size_bytes}

\* the one of them at the lowest address
LowestFit(size_bytes) ==
    CHOOSE p \in FitNodes(size_bytes) :
        \A q \in FitNodes(size_bytes) : ByteAddr(p) <= ByteAddr(q)

\* C19: on a recycling arena, when the end Region cannot hold the request
\* and some node of the free list, the head or a later one, has size_bytes
\* of at least the requested size, allocate returns the lowest-address such
\* node, takes it out of the list and creates no Region.
C19_FirstFitOverWholeList ==
    [][(/\ Called("allocate")
        /\ use_free_list
        /\ EndTooFull(Last(trace').size)
        /\ FitNodes(Last(trace').size) # {})
         => /\ Last(trace').res = LowestFit(Last(trace').size)
            /\ LowestFit(Last(trace').size) \notin Reach(nodes', free_list', {})
            /\ Len(regions') = Len(regions)]_vars

Max(x, y) == IF x > y THEN x ELSE y

\* C21: a Region created by growth has capacity exactly the larger of the
\* capacity of the chain's last Region and the rounded request, in the unit
\* the existing capacities are in.
C21_GrowthCapacityIsMax ==
    [][Called("allocate") =>
         \A i \in (Len(regions) + 1)..Len(regions') :
             regions'[i].capacity =
                 Max(regions[Len(regions)].capacity, AlignSize(Last(trace').size))]_vars

\* C22: capacities never decrease along the chain: every Region with a
\* successor has at most the successor's capacity, also when a capacity or a
\* request does not fit in 32 bits.
C22_CapacitiesNonDecreasing ==
    \A i \in 1..(Len(regions) - 1) : regions[i + 1].capacity >= regions[i].capacity

\* the first Region behind end with room for the request; 0 when there is none
FirstLaterFit(size_bytes) ==
    LET fit == {i \in (end + 1)..Len(regions) :
                    regions[i].capacity - regions[i].data_count >= AlignSize(size_bytes)}
    IN IF fit = {} THEN 0 ELSE CHOOSE i \in fit : \A j \in fit : i <= j

\* the allocate step bump-allocated in that Region and made it end, and
\* created no Region
ServedFromLater(size_bytes) ==
    LET i == FirstLaterFit(size_bytes) IN
    /\ Last(trace').res = [base |-> regions[i].base, idx |-> regions[i].data_count]
    /\ regions'[i].data_count = regions[i].data_count + AlignSize(size_bytes)
    /\ end' = i
    /\ Len(regions') = Len(regions)

\* C23: allocate creates a Region only if no Region from end to the tail has
\* room for the request; an allocate that does not fit in end while a later
\* Region has room (end was rewound by a pop) is served from the first such
\* Region, which becomes end, and the number of Regions stays.
C23_LaterRegionBeforeGrowth ==
    [][Called("allocate") =>
         /\ Len(regions') > Len(regions)
               => (EndTooFull(Last(trace').size) /\ FirstLaterFit(Last(trace').size) = 0)
         /\ (EndTooFull(Last(trace').size) /\ FirstLaterFit(Last(trace').size) # 0)
               => ServedFromLater(Last(trace').size)]_vars

\* C23 as amended: the same, for an allocate that the head of the free list
\* does not serve.
C23_LaterRegionBeforeGrowthAfterFreeList ==
    [][Called("allocate") =>
         /\ Len(regions') > Len(regions)
               => (EndTooFull(Last(trace').size) /\ FirstLaterFit(Last(trace').size) = 0)
         /\ (/\ EndTooFull(Last(trace').size)
             /\ ~FreeListFits(Arena, Last(trace').size)
             /\ FirstLaterFit(Last(trace').size) # 0)
               => ServedFromLater(Last(trace').size)]_vars

\* a pop rewound end to the first Region and the allocate after it was
\* served from the start of a later Region that was already there
C23_Witness ==
    /\ Len(trace) = 2
    /\ trace[1].name = "pop"
    /\ trace[1].mark.reg = 1
    /\ Allocated(trace[2])
    /\ end >= 2
    /\ trace[2].res = [base |-> regions[end].base, idx |-> 0]
    /\ trace[2].nreg = trace[1].nreg

\* the step is pop of the ArenaMark value the caller holds as m
PopOf(m) ==
    Called("pop") /\ Last(trace').mark = [reg |-> m.reg, count |-> m.count]

\* the chain holds the Regions it held, in the same order
SameRegions ==
    /\ Len(regions') = Len(regions)
    /\ \A i \in 1..Len(regions) :
          regions'[i].base = regions[i].base /\ regions'[i].capacity = regions[i].capacity

\* C24: after pop(m), m captured by mark() at any earlier point: m.region's
\* used is what it was when m was captured, whatever that value is, every
\* Region behind m.region has used = 0, end is m.region and the chain holds
\* the Regions it held.
C24_PopRestoresMarkedRegion ==
    [][\A m \in marks :
          (PopOf(m) /\ m.reg > 0) =>
              /\ regions'[m.reg].data_count = m.snap[m.reg]
              /\ \A i \in (m.reg + 1)..Len(regions') : regions'[i].data_count = 0
              /\ end' = m.reg
              /\ SameRegions]_vars

\* C25: under stack discipline on an arena without recycling, pop of a mark
\* leaves end and every Region's used as they were when the mark was taken
\* (Regions created since then empty), for the inner mark and then for the
\* outer one, however many Regions were created in between.
C25_StackPopRestoresArena ==
    [][\A m \in marks :
          (PopOf(m) /\ ~use_free_list) =>
              /\ end' = m.reg
              /\ \A i \in 1..Len(regions') :
                    regions'[i].data_count = IF i <= Len(m.snap) THEN m.snap[i] ELSE 0]_vars

\* C26: after reset every Region has used = 0, end is start, the free list
\* is empty, and the chain holds the Regions it held, with their capacities.
C26_ResetEmptiesAndKeepsRegions ==
    [][Called("reset") =>
         /\ \A i \in 1..Len(regions') : regions'[i].data_count = 0
         /\ end' = 1
         /\ free_list' = NULL
         /\ SameRegions]_vars

\* a reset of a recycling arena of several Regions, right after a block went
\* into its free list
C26_Witness ==
    /\ use_free_list
    /\ Len(trace) = 2
    /\ trace[1].name = "deallocate"
    /\ trace[1].size >= NodeBytes
    /\ trace[1].used > 0
    /\ trace[2].name = "reset"
    /\ Len(regions) >= 2

\* C27: in every state reached by allocate, deallocate, mark, pop of any
\* mark taken before (in any order, also across a reset) and reset, every
\* Region of the chain has 0 <= used <= capacity.
C27_UsedWithinCapacity ==
    \A i \in 1..Len(regions) :
        0 <= regions[i].data_count /\ regions[i].data_count <= regions[i].capacity

\* a pop of a mark taken earlier put a Region of a grown chain back to full
C27_Witness ==
    /\ trace # <<>>
    /\ Last(trace).name = "pop"
    /\ Last(trace).mark.reg > 0
    /\ Last(trace).mark.count > 0
    /\ Len(regions) >= 2
    /\ regions[end].data_count = regions[end].capacity
    /\ \E m \in marks : m.reg = end /\ m.seq < seq - 2

\* the sum used + size rounded up, taken as numbers and not modulo 2^64, is
\* more than the capacity: a rounded size written as a negative number stands
\* for 2^64 minus a little, more than any capacity here
ExceedsCapacity(reg, size_bytes) ==
    \/ AlignSize(size_bytes) < 0
    \/ reg.data_count + AlignSize(size_bytes) > reg.capacity

\* there was a region_reset, and every call since has failed
FirstSinceReset ==
    \E i \in 1..Len(trace) :
        /\ trace[i].name = "region_reset"
        /\ \A j \in (i + 1)..Len(trace) :
              trace[j].name = "region_allocate" /\ trace[j].res = NULL

\* C28: region_allocate(reg, size) fails exactly when used + size rounded up
\* exceeds the capacity, and then leaves used unchanged; otherwise it returns
\* the address at offset used and advances used by the rounded size. The
\* first region_allocate to succeed after a region_reset returns the base.
C28_RegionAllocateFailsExactlyWhenFull ==
    [][Called("region_allocate") =>
         LET reg == regions[1]
             c == Last(trace') IN
         /\ IF ExceedsCapacity(reg, c.size)
            THEN c.res = NULL /\ regions' = regions
            ELSE /\ c.res = [base |-> reg.base, idx |-> reg.data_count]
                 /\ regions'[1] = [reg EXCEPT !.data_count = @ + AlignSize(c.size)]
         /\ (FirstSinceReset /\ c.res # NULL) => c.res = [base |-> reg.base, idx |-> 0]]_vars

\* the same for requests below 2^63 bytes
RegionAllocateFailsExactlyWhenFullBelowWrap ==
    [][(Called("region_allocate") /\ Last(trace').size >= 0) =>
         LET reg == regions[1]
             c == Last(trace') IN
         /\ IF ExceedsCapacity(reg, c.size)
            THEN c.res = NULL /\ regions' = regions
            ELSE /\ c.res = [base |-> reg.base, idx |-> reg.data_count]
                 /\ regions'[1] = [reg EXCEPT !.data_count = @ + AlignSize(c.size)]
         /\ (FirstSinceReset /\ c.res # NULL) => c.res = [base |-> reg.base, idx |-> 0]]_vars

\* the free list as the sequence of its nodes' addresses, head first
RECURSIVE ListSeq(_, _, _)
ListSeq(ns, p, seen) ==
    IF p = NULL \/ p \in seen THEN <<>>
    ELSE <<p>> \o ListSeq(ns, ns[p].next, seen \cup {p})

\* C29: an allocate served from the free list (end cannot hold the request,
\* the list can) returns a node of the list and removes exactly that node:
\* the other nodes stay, in their order and with their contents, the
\* returned address is no longer in the list, and neither end nor any
\* Region's used changes.
C29_FreeListAllocateRemovesOneNode ==
    [][(Called("allocate") /\ EndTooFull(Last(trace').size)
                           /\ FreeListFits(Arena, Last(trace').size))
         => LET res == Last(trace').res
                before == ListSeq(nodes, free_list, {})
                after == ListSeq(nodes', free_list', {}) IN
            /\ \E i \in 1..Len(before) : before[i] = res
            /\ after = SelectSeq(before, LAMBDA p : p # res)
            /\ Len(after) = Len(before) - 1
            /\ \A i \in 1..Len(after) : nodes'[after[i]] = nodes[after[i]]
            /\ end' = end
            /\ regions' = regions]_vars

\* allocate was served from a free list of two nodes: it returned an address,
\* used no buffer space and left the other node in the list
C29_Witness ==
    /\ use_free_list /\ Len(trace) = 2
    /\ trace[2].name = "allocate"
    /\ trace[2].res # NULL
    /\ trace[2].used = trace[1].used
    /\ trace[2].nreg = trace[1].nreg
    /\ free_list # NULL
    /\ free_list # trace[2].res

\* end is a Region of the chain, the chain starts at the Region create_arena
\* made, and no Region is in it twice
ChainWellFormed ==
    /\ end \in 1..Len(regions)
    /\ regions[1].base = FirstBase
    /\ \A i, j \in 1..Len(regions) : regions[i].base = regions[j].base => i = j

\* the chain keeps the Regions it has, at their places and capacities
ChainOnlyGrows ==
    /\ Len(regions') >= Len(regions)
    /\ \A i \in 1..Len(regions) :
          regions'[i].base = regions[i].base /\ regions'[i].capacity = regions[i].capacity

\* C30: in every state reached by allocate, deallocate, mark, pop and reset,
\* start is the Region set at creation, end is a Region reachable from start,
\* the chain is acyclic, and no step removes a Region or changes the
\* capacity of one.
C30_ChainStable ==
    []ChainWellFormed /\ [][ChainOnlyGrows]_vars

\* a pop moved end back to the first Region of a chain that growth had
\* brought to its full length
C30_Witness ==
    /\ trace # <<>>
    /\ Last(trace).name = "pop"
    /\ Last(trace).mark.reg = 1
    /\ Len(regions) = MaxRegions
    /\ end = 1
    /\ \E m \in marks : m.reg > 1

\* C31: in every state reached by allocate, deallocate, mark, pop of any mark
\* taken before and reset, every Region behind end in the chain has used = 0:
\* no Region past the bump frontier holds bump-allocated data.
C31_NothingUsedBehindEnd ==
    \A i \in (end + 1)..Len(regions) : regions[i].data_count = 0

\* a pop moved end back to the second of three Regions, which holds data,
\* after a mark had been taken in the third while that one held data
C31_Witness ==
    /\ trace # <<>>
    /\ Last(trace).name = "pop"
    /\ Last(trace).mark.reg = 2
    /\ end = 2
    /\ Len(regions) = 3
    /\ regions[2].data_count > 0
    /\ \E m \in marks : m.reg = 3 /\ m.count > 0

C33_RecyclingLeavesRegionsAlone ==
    [][(\/ Called("deallocate")
        \/ /\ Called("allocate")
           /\ EndTooFull(Last(trace').size)
           /\ FreeListFits(Arena, Last(trace').size))
         => /\ end' = end
            /\ regions' = regions
            /\ Last(trace').used = TotalUsed(Arena)
            /\ Last(trace').nreg = Len(regions)]_vars

\* a block was given back and the very next allocate got it again, the used
\* total staying where it was through both calls
C33_Witness ==
    /\ use_free_list /\ Len(trace) = 2
    /\ trace[1].name = "deallocate" /\ trace[1].size >= NodeBytes
    /\ trace[2].name = "allocate"
    /\ trace[2].res = trace[1].ptr
    /\ trace[2].used = trace[1].used
    /\ trace[1].used = TotalUsed(Arena)
    /\ TotalUsed(Arena) > 0

\* C34: allocate(0) succeeds in every reachable state and changes neither a
\* Region's used, nor end, nor the chain, nor the free list; the address it
\* returns is the one the next allocate of a size that fits in the end
\* Region returns.
C34_AllocateZeroChangesNothing ==
    [][Called("allocate") =>
         /\ Last(trace').size = 0 =>
               /\ Last(trace').res # NULL
               /\ Last(trace').res = [base |-> regions[end].base, idx |-> regions[end].data_count]
               /\ UNCHANGED arenaVars
         /\ (/\ trace # <<>>
             /\ Last(trace).name = "allocate" /\ Last(trace).size = 0
             /\ ~EndTooFull(Last(trace').size))
               => Last(trace').res = Last(trace).res]_vars

\* allocate(0) on a grown arena whose end Region holds data, and then an
\* allocate of 24 bytes that got the same address
C34_Witness ==
    /\ Len(trace) = 2
    /\ trace[1].name = "allocate" /\ trace[1].size = 0 /\ trace[1].res # NULL
    /\ trace[2].name = "allocate" /\ trace[2].size = 24
    /\ trace[2].res = trace[1].res
    /\ trace[1].res.idx > 0
    /\ Len(regions) >= 2

\* allocate(0) was answered by an end Region with nothing left
AllocateZeroOnFullEnd ==
    /\ trace # <<>>
    /\ Last(trace).name = "allocate" /\ Last(trace).size = 0
    /\ Last(trace).res # NULL
    /\ regions[end].data_count = regions[end].capacity
    /\ regions[end].capacity > 0

====
